---- MODULE Spec2Model ----
(***************************************************************************)
(* State-machine model of the test session lifecycle of the NEET test      *)
(* frontend: the TestInterface page (answers, cursor, submission flags,    *)
(* focus-loss monitor), the Timer component, the submission transport and  *)
(* the TestResults page that is shown after the session ends.              *)
(*                                                                         *)
(* React semantics kept by the model:                                      *)
(*  - a handler reads hook state from the closure of the render that       *)
(*    created it (variable rendered, and fx for the focus listeners, which *)
(*    are re-installed only when their effect dependencies change);        *)
(*  - a ref (.current) is read and written synchronously;                  *)
(*  - updates made by a React click handler are committed at the end of    *)
(*    the handler (CommitRender inside the action); updates made by timer  *)
(*    callbacks, native focus listeners and promise continuations are      *)
(*    committed by the separate Render step.                               *)
(***************************************************************************)
EXTENDS Integers, Sequences, FiniteSets, TLC

\* ---------------------------------------------------------------- bounds
MaxQuestions == 2
MaxDuration == 2
MaxCalls == 2
\* focus-loss events are counted up to this number
MaxFocusEvents == 4
\* onTimeUp calls after which SpecTimer loads no further duration
MaxFires == 3
\* floor((Date.now() - testStartTime) / 1000) at the moment of a selection: a
\* whole number of seconds that no code path inspects; one value stands for it
ElapsedSeconds == 1
\* subjects offered by the selection page
MaxSubjects == 2

\* ------------------------------------------------------ program constants
MAX_WARNINGS == 2
Options == {"A", "B", "C", "D"}
Reasons == {"manual", "timeout", "forced_violation"}
Outcomes == {"success", "unsuccessful", "error"}
IdShapes == {"question_id", "id"}
\* the option labels the modelled user clicks in Spec
ClickedOptions == {"A"}
\* the option labels the modelled user clicks in SpecAnswers and SpecNavigate
OverwriteOptions == {"A", "B"}

NoAnswer == [question_id |-> 0, answer |-> "none", time_taken |-> 0]

VARIABLES
    questions,            \* useState questions: sequence of question records
    answers,              \* useState answers: question id -> answer record (NoAnswer = key absent)
    currentQuestionIndex, \* useState currentQuestionIndex
    timeUp,               \* useState timeUp
    testSubmitted,        \* useState testSubmitted (session status submitted)
    warningCount,         \* useState warningCount
    isSubmitting,         \* useState isSubmitting
    submissionStartedRef, \* useRef submissionStartedRef.current (the submission flag)
    rendered,             \* hook state as seen by the closures of the last render
    fx,                   \* closure of the focus listeners installed by the last run of their effect
    duration,             \* testData.timer_seconds
    timeLeft,             \* Timer useState timeLeft
    timeUpCalledRef,      \* Timer useRef timeUpCalledRef.current (the latch)
    requests,             \* the testAPI.submitTest calls in flight, oldest first
    transportCalls,       \* number of testAPI.submitTest calls started
    rollbacks,            \* number of submissions whose flag was rolled back
    timeUpEvents,         \* number of onTimeUp() calls made by the Timer
    focusEvents,          \* focus-loss events the listeners reacted to, counted up to MaxFocusEvents (recorded in SpecFocus)
    ticks,                \* interval callbacks run since the Timer was mounted or its duration changed, counted up to duration + 1
    screen,               \* route shown: "test", "results", "selection"
    contextTestResults,   \* context testResults present for this test id
    resultsView,          \* TestResults page state
    testResults,          \* the TestResult shown by the results page (recorded in SpecScore)
    context,              \* TestContext state used by the selection page (changed in SpecSelection)
    startingTest,         \* TestSelection useState startingTest
    topicFetches,         \* testAPI.getTopicsBySubject calls in flight: how many for each subject id
    startRequests,        \* testAPI.startTest calls in flight: their testData
    uiEvent,              \* the last answer or navigation click (recorded in SpecAnswers and SpecNavigate)
    lastEvent             \* the last submit trigger or transport answer and its outcome

vars == <<questions, answers, currentQuestionIndex, timeUp, testSubmitted,
          warningCount, isSubmitting, submissionStartedRef, rendered, fx,
          duration, timeLeft, timeUpCalledRef, requests, transportCalls,
          rollbacks, timeUpEvents, ticks, focusEvents, screen, contextTestResults,
          resultsView, testResults, context, startingTest, topicFetches,
          startRequests, uiEvent, lastEvent>>

\* What lastEvent records: which trigger ran (or which call was answered),
\* "trigger" or the transport's answer, and what the handler did.
Event(op, kind, result) == [op |-> op, kind |-> kind, result |-> result]

\* What uiEvent records: the handler that ran, the option it was given ("" if
\* none) and the question id (answer handlers) or the index it was given
\* (handleQuestionJump) or the cursor it started from (next, previous).
UiEvent(op, option, target) == [op |-> op, option |-> option, target |-> target]

\* ------------------------------------------------------------ questions
\* A question carries its identifier as question_id or as id (0 = field absent).
MakeQuestion(i, shape) ==
    [question_id |-> IF shape = "question_id" THEN i ELSE 0,
     id          |-> IF shape = "id" THEN i ELSE 0]

\* question.question_id || question.id
QuestionId(question) ==
    IF question.question_id # 0 THEN question.question_id ELSE question.id

K == Len(questions)

QuestionIds == {QuestionId(questions[i]) : i \in 1..K}

\* Object.keys(answers).length
AnsweredCount(ans) == Cardinality({q \in DOMAIN ans : ans[q] # NoAnswer})

\* --------------------------------------------------------------- render
\* A render followed by its effects: the closures of the new render see the
\* committed hook state; the focus-listener effect (deps testSubmitted,
\* warningCount, isSubmitting) re-runs only when a dependency changed, and
\* installs no listener while the test is submitted or submitting.
\* The answers captured by the focus listeners' handleSubmitTest.  They are
\* read only when the listeners reach handleSubmitTest (closure warningCount
\* at MAX_WARNINGS or above); where they cannot be read the model records
\* the empty collection instead.
ClosureAnswers(installed, cWarningCount, cAnswers) ==
    IF installed /\ cWarningCount >= MAX_WARNINGS
    THEN cAnswers
    ELSE [q \in DOMAIN cAnswers |-> NoAnswer]

CommitRender(nIsSubmitting, nTestSubmitted, nTimeUp, nWarningCount, nAnswers) ==
    /\ rendered' = [isSubmitting |-> nIsSubmitting, testSubmitted |-> nTestSubmitted,
                    timeUp |-> nTimeUp, warningCount |-> nWarningCount]
    /\ fx' = IF <<nTestSubmitted, nWarningCount, nIsSubmitting>> #
                <<rendered.testSubmitted, rendered.warningCount, rendered.isSubmitting>>
             THEN [installed |-> ~(nTestSubmitted \/ nIsSubmitting),
                   warningCount |-> nWarningCount,
                   answers |-> ClosureAnswers(~(nTestSubmitted \/ nIsSubmitting),
                                              nWarningCount, nAnswers)]
             ELSE fx

Dirty ==
    rendered # [isSubmitting |-> isSubmitting, testSubmitted |-> testSubmitted,
                timeUp |-> timeUp, warningCount |-> warningCount]

\* ---------------------------------------------------- handleSubmitTest
\* Mutant: the guard looks at the hook state only, not at the ref.
SubmitBlocked_NoRef(cIsSubmitting, cTestSubmitted) ==
    cIsSubmitting \/ cTestSubmitted

\* The duplicate-submission guard, read from the calling closure and the ref.
SubmitBlocked(cIsSubmitting, cTestSubmitted) ==
    cIsSubmitting \/ cTestSubmitted \/ submissionStartedRef

\* Mutant: the validation is applied whatever the reason.
NeedsAnswer_AnyReason(autoSubmit, cAnswers) ==
    AnsweredCount(cAnswers) = 0

\* The "answer at least one question" validation of a manual submit.
NeedsAnswer(autoSubmit, cAnswers) ==
    ~autoSubmit /\ AnsweredCount(cAnswers) = 0

\* Mutant: only the answered questions are sent.
BuildAnswersArray_OnlyAnswered(cAnswers) ==
    SelectSeq([i \in 1..K |-> cAnswers[QuestionId(questions[i])]],
              LAMBDA a : a # NoAnswer)

\* questions.map(...): one entry per question, in question order.
BuildAnswersArray(cAnswers) ==
    [i \in 1..K |->
        LET questionId == QuestionId(questions[i])
            userAnswer == cAnswers[questionId]
        IN  IF userAnswer # NoAnswer
            THEN userAnswer
            ELSE [question_id |-> questionId, answer |-> "", time_taken |-> 0]]

\* Which way the synchronous part of handleSubmitTest goes.
SubmitOutcome(autoSubmit, confirmed, cIsSubmitting, cTestSubmitted, cAnswers) ==
    IF SubmitBlocked(cIsSubmitting, cTestSubmitted) THEN "noop"
    ELSE IF NeedsAnswer(autoSubmit, cAnswers) THEN "validation_error"
    ELSE IF ~autoSubmit /\ ~confirmed THEN "cancelled"
    ELSE "started"

\* Mutant: the ref is not set before the transport call begins.
HandleSubmitTest_NoFlag(reason, confirmed, cIsSubmitting, cTestSubmitted, cAnswers) ==
    LET autoSubmit == reason # "manual"
        out == SubmitOutcome(autoSubmit, confirmed, cIsSubmitting, cTestSubmitted, cAnswers)
    IN  /\ lastEvent' = Event(reason, "trigger", out)
        /\ UNCHANGED submissionStartedRef
        /\ IF out = "started"
           THEN /\ requests' = Append(requests,
                                      [autoSubmit |-> autoSubmit, reason |-> reason,
                                       answersArray |-> BuildAnswersArray(cAnswers)])
                /\ transportCalls' = transportCalls + 1
           ELSE UNCHANGED <<requests, transportCalls>>

\* The synchronous part of handleSubmitTest, up to the await.  The caller
\* supplies the hook state of its closure; isSubmitting is set by the caller
\* from SubmitOutcome (setIsSubmitting(true) on "started").
HandleSubmitTest(reason, confirmed, cIsSubmitting, cTestSubmitted, cAnswers) ==
    LET autoSubmit == reason # "manual"
        out == SubmitOutcome(autoSubmit, confirmed, cIsSubmitting, cTestSubmitted, cAnswers)
    IN  /\ lastEvent' = Event(reason, "trigger", out)
        /\ IF out = "started"
           THEN /\ submissionStartedRef' = TRUE
                /\ requests' = Append(requests,
                                      [autoSubmit |-> autoSubmit, reason |-> reason,
                                       answersArray |-> BuildAnswersArray(cAnswers)])
                /\ transportCalls' = transportCalls + 1
           ELSE UNCHANGED <<submissionStartedRef, requests, transportCalls>>

\* --------------------------------------------------------------- Timer
\* Mutant: no latch, onTimeUp fires on every tick at or below one.
TimerStep_NoLatch(prev, latch) ==
    IF prev <= 1 THEN [timeLeft |-> 0, latch |-> TRUE, fire |-> TRUE]
    ELSE [timeLeft |-> prev - 1, latch |-> latch, fire |-> FALSE]

\* The setTimeLeft updater run by one interval callback.
TimerStep(prev, latch) ==
    IF prev <= 1 /\ ~latch THEN [timeLeft |-> 0, latch |-> TRUE, fire |-> TRUE]
    ELSE IF prev <= 1 THEN [timeLeft |-> 0, latch |-> latch, fire |-> FALSE]
    ELSE [timeLeft |-> prev - 1, latch |-> latch, fire |-> FALSE]

\* The guard of handleTimeUp, read from the closure of the last render.
TimeUpBlocked ==
    rendered.timeUp \/ rendered.isSubmitting \/ rendered.testSubmitted \/ submissionStartedRef

\* <Timer> is rendered while timeUp is false; its interval runs while isActive.
TimerMounted == ~rendered.timeUp

\* Mutant: the interval keeps running while a submission is shown as running.
TimerActive_Always == TRUE

\* isActive={!isSubmitting} of the last render.
TimerActive == ~rendered.isSubmitting

\* ------------------------------------------------------------ continuation
\* What the code after the await does with the transport's answer.
ResponseEffect(outcome, autoSubmit) ==
    IF outcome = "success" THEN "submitted"
    ELSE IF outcome = "unsuccessful" THEN "rolled_back"
    ELSE IF autoSubmit THEN "submitted_fallback"
    ELSE "rolled_back"

\* -------------------------------------------------------------- scoring
\* No result has been produced yet.
NoResult == [scored |-> FALSE, total_questions |-> 0, correct_answers |-> 0,
             wrong_answers |-> 0, not_attempted |-> 0, neet_score |-> 0,
             score_percentage |-> 0, grade |-> "Poor"]

\* A percentage is held in hundredths of a percent: 5500 is 55.00.
PercentScale == 100

\* percentage = max(raw_score, 0) / (total * 4) * 100
Percentage(rawScore, total) ==
    ((IF rawScore > 0 THEN rawScore ELSE 0) * 100 * PercentScale) \div (total * 4)

\* The grade band of a percentage.
Grade(percentage) ==
    IF percentage >= 90 * PercentScale THEN "Excellent"
    ELSE IF percentage >= 75 * PercentScale THEN "Good"
    ELSE IF percentage >= 60 * PercentScale THEN "Average"
    ELSE IF percentage >= 40 * PercentScale THEN "Below Average"
    ELSE "Poor"

\* The marking of one submitted entry against the correct option.
Mark(entry, correctOption) ==
    IF entry.answer = "" THEN "not_attempted"
    ELSE IF entry.answer = correctOption THEN "correct"
    ELSE "wrong"

CountMarks(answersArray, correctOptions, mark) ==
    Cardinality({i \in 1..Len(answersArray) :
                    Mark(answersArray[i], correctOptions[i]) = mark})

\* score(questions, answers): the TestResult of a submitted answers array.
Score(answersArray, correctOptions) ==
    LET correct == CountMarks(answersArray, correctOptions, "correct")
        wrong == CountMarks(answersArray, correctOptions, "wrong")
    IN  [scored |-> TRUE,
         total_questions |-> Len(answersArray),
         correct_answers |-> correct,
         wrong_answers |-> wrong,
         not_attempted |-> CountMarks(answersArray, correctOptions, "not_attempted"),
         neet_score |-> 4 * correct - 1 * wrong,
         score_percentage |-> Percentage(4 * correct - 1 * wrong, Len(answersArray)),
         grade |-> Grade(Percentage(4 * correct - 1 * wrong, Len(answersArray)))]

\* a || b on numbers: a unless it is 0.
JsOr(a, b) == IF a # 0 THEN a ELSE b

\* The number shown as Wrong.
DisplayedWrong(r) ==
    JsOr(r.wrong_answers,
         r.total_questions - r.correct_answers - JsOr(r.not_attempted, 0))

\* Mutant: a negative total is shown as 0.
DisplayedTotalScore_Clamped(r) ==
    LET total == JsOr(r.neet_score, r.correct_answers * 4 - DisplayedWrong(r))
    IN  IF total < 0 THEN 0 ELSE total

\* The number shown as Total Score.
DisplayedTotalScore(r) ==
    JsOr(r.neet_score, r.correct_answers * 4 - DisplayedWrong(r))

\* Math.round of a percentage, in whole percents.
MathRound(percentage) == (2 * percentage + PercentScale) \div (2 * PercentScale)

\* toFixed(1) of a percentage, in tenths of a percent.
ToFixed1(percentage) ==
    LET tenth == PercentScale \div 10
        magnitude == IF percentage < 0 THEN 0 - percentage ELSE percentage
        digits == (2 * magnitude + tenth) \div (2 * tenth)
    IN  IF percentage < 0 THEN 0 - digits ELSE digits

\* The large percentage at the top of the results page, in whole percents.
DisplayedScore(r) == MathRound(r.score_percentage)

\* Mutant: the Percentage line is computed from the Total Score shown.
DisplayedPercentage_FromTotal(r) ==
    ToFixed1((DisplayedTotalScore(r) * 100 * PercentScale) \div (r.total_questions * 4))

\* The Percentage line under Total Score, in tenths of a percent.
DisplayedPercentage(r) == ToFixed1(r.score_percentage)

\* The text colour of the grade badge on the results page.
GetGradeColor(grade) ==
    CASE grade = "Excellent" -> "text-green-600"
      [] grade = "Good" -> "text-blue-600"
      [] grade = "Average" -> "text-yellow-600"
      [] grade = "Below Average" -> "text-orange-600"
      [] grade = "Poor" -> "text-red-600"
      [] OTHER -> "text-gray-600"

\* The colour of the large percentage on the results page.
GetScoreColor(percentage) ==
    IF percentage >= 90 * PercentScale THEN "text-green-600"
    ELSE IF percentage >= 75 * PercentScale THEN "text-blue-600"
    ELSE IF percentage >= 60 * PercentScale THEN "text-yellow-600"
    ELSE IF percentage >= 40 * PercentScale THEN "text-orange-600"
    ELSE "text-red-600"

\* The colour of a test's percentage in the test history list.
HistoryGetGradeColor(percentage) ==
    IF percentage >= 90 * PercentScale THEN "text-green-600"
    ELSE IF percentage >= 80 * PercentScale THEN "text-blue-600"
    ELSE IF percentage >= 70 * PercentScale THEN "text-yellow-600"
    ELSE IF percentage >= 60 * PercentScale THEN "text-orange-600"
    ELSE "text-red-600"

\* ----------------------------------------------------------------- Init
Init ==
    /\ \E shape \in IdShapes :
           questions = [i \in 1..MaxQuestions |-> MakeQuestion(i, shape)]
    /\ answers = [q \in QuestionIds |-> NoAnswer]
    /\ currentQuestionIndex = 0
    /\ timeUp = FALSE
    /\ testSubmitted = FALSE
    /\ warningCount = 0
    /\ isSubmitting = FALSE
    /\ submissionStartedRef = FALSE
    /\ rendered = [isSubmitting |-> FALSE, testSubmitted |-> FALSE,
                   timeUp |-> FALSE, warningCount |-> 0]
    /\ fx = [installed |-> TRUE, warningCount |-> 0, answers |-> answers]
    /\ duration \in {1, MaxDuration}
    /\ timeLeft = duration
    /\ timeUpCalledRef = FALSE
    /\ requests = <<>>
    /\ transportCalls = 0
    /\ rollbacks = 0
    /\ timeUpEvents = 0
    /\ ticks = 0
    /\ focusEvents = 0
    /\ screen = "test"
    /\ contextTestResults = FALSE
    /\ resultsView = [stage |-> "none", loading |-> FALSE, results |-> FALSE,
                      toast |-> ""]
    /\ testResults = NoResult
    /\ context = [selectedSubject |-> 0, selectedTopic |-> 0, topics |-> <<>>,
                  questionCount |-> 10, testType |-> "topic", currentTest |-> 0]
    /\ startingTest = FALSE
    /\ topicFetches = [subjectId \in 1..MaxSubjects |-> 0]
    /\ startRequests = <<>>
    /\ uiEvent = UiEvent("none", "", 0)
    /\ lastEvent = Event("start", "start", "ok")

sessionVars == <<timeUp, testSubmitted, warningCount, isSubmitting, submissionStartedRef,
                 requests, transportCalls, rollbacks>>
timerVars == <<timeLeft, timeUpCalledRef, timeUpEvents, ticks>>
resultVars == <<screen, contextTestResults, resultsView, testResults>>
selectionVars == <<context, startingTest, topicFetches, startRequests>>

\* -------------------------------------------------------- answer handlers
CurrentQuestion == questions[currentQuestionIndex + 1]

\* The page renders its controls only when currentQuestion is defined.
QuestionShown == currentQuestionIndex \in 0..(K - 1)

\* Mutant: a question that has an answer keeps it.
SetAnswersOnSelect_KeepsFirst(prev, questionId, optionKey) ==
    IF prev[questionId] # NoAnswer THEN prev
    ELSE [prev EXCEPT ![questionId] =
             [question_id |-> questionId, answer |-> optionKey,
              time_taken |-> ElapsedSeconds]]

\* The setAnswers updater of handleAnswerSelect.
SetAnswersOnSelect(prev, questionId, optionKey) ==
    [prev EXCEPT ![questionId] =
        [question_id |-> questionId, answer |-> optionKey,
         time_taken |-> ElapsedSeconds]]

\* Mutant: every answer is removed.
SetAnswersOnClear_All(prev, questionId) ==
    [q \in DOMAIN prev |-> NoAnswer]

\* The setAnswers updater of handleClearAnswer.
SetAnswersOnClear(prev, questionId) ==
    [prev EXCEPT ![questionId] = NoAnswer]

HandleAnswerSelect(optionKey) ==
    /\ screen = "test"
    /\ QuestionShown
    /\ answers' = SetAnswersOnSelect(answers, QuestionId(CurrentQuestion), optionKey)
    /\ CommitRender(isSubmitting, testSubmitted, timeUp, warningCount, answers')
    /\ UNCHANGED <<questions, currentQuestionIndex, duration, lastEvent>>
    /\ UNCHANGED <<sessionVars, timerVars, resultVars, selectionVars, focusEvents>>

\* The Clear Answer button is shown when answers[currentQuestion.id] is set.
HandleClearAnswer ==
    /\ screen = "test"
    /\ QuestionShown
    /\ CurrentQuestion.id # 0
    /\ answers[CurrentQuestion.id] # NoAnswer
    /\ answers' = SetAnswersOnClear(answers, QuestionId(CurrentQuestion))
    /\ CommitRender(isSubmitting, testSubmitted, timeUp, warningCount, answers')
    /\ UNCHANGED <<questions, currentQuestionIndex, duration, lastEvent>>
    /\ UNCHANGED <<sessionVars, timerVars, resultVars, selectionVars, focusEvents>>

\* ------------------------------------------------------------ navigation
Navigate(newIndex) ==
    /\ currentQuestionIndex' = newIndex
    /\ CommitRender(isSubmitting, testSubmitted, timeUp, warningCount, answers)
    /\ UNCHANGED <<questions, answers, duration, lastEvent>>
    /\ UNCHANGED <<sessionVars, timerVars, resultVars, selectionVars, focusEvents>>

\* Mutant: no test against the last index.
HandleNext_NoBound ==
    /\ screen = "test"
    /\ QuestionShown
    /\ Navigate(currentQuestionIndex + 1)

HandleNext ==
    /\ screen = "test"
    /\ QuestionShown
    /\ currentQuestionIndex < K - 1
    /\ Navigate(currentQuestionIndex + 1)

HandlePrevious ==
    /\ screen = "test"
    /\ QuestionShown
    /\ currentQuestionIndex > 0
    /\ Navigate(currentQuestionIndex - 1)

HandleQuestionJump(index) ==
    /\ screen = "test"
    /\ QuestionShown
    /\ Navigate(index)

\* --------------------------------------------------------- submit button
\* onClick={() => handleSubmitTest(false)}; the button is disabled while the
\* rendered isSubmitting is true.  confirmed is the answer to window.confirm.
ClickSubmit(confirmed) ==
    /\ screen = "test"
    /\ QuestionShown
    /\ ~rendered.isSubmitting
    /\ LET out == SubmitOutcome(FALSE, confirmed, rendered.isSubmitting,
                                rendered.testSubmitted, answers)
       IN  /\ out = "started" => transportCalls < MaxCalls
           /\ HandleSubmitTest("manual", confirmed, rendered.isSubmitting,
                               rendered.testSubmitted, answers)
           /\ isSubmitting' = IF out = "started" THEN TRUE ELSE isSubmitting
           /\ CommitRender(isSubmitting', testSubmitted, timeUp, warningCount, answers)
    /\ UNCHANGED <<questions, answers, currentQuestionIndex, duration>>
    /\ UNCHANGED <<timeUp, testSubmitted, warningCount, rollbacks, focusEvents, uiEvent>>
    /\ UNCHANGED <<timerVars, resultVars, selectionVars>>

\* ------------------------------------------------------------------ tick
\* One setInterval callback of the Timer; when the updater fires onTimeUp it
\* runs handleTimeUp of the last render, which calls handleSubmitTest(true).
Tick ==
    /\ screen = "test"
    /\ TimerMounted
    /\ TimerActive
    /\ LET step == TimerStep(timeLeft, timeUpCalledRef)
       IN  /\ timeLeft' = step.timeLeft
           /\ timeUpCalledRef' = step.latch
           /\ ticks' = IF ticks <= duration THEN ticks + 1 ELSE ticks
           /\ timeUpEvents' = IF step.fire THEN timeUpEvents + 1 ELSE timeUpEvents
           /\ IF step.fire /\ ~TimeUpBlocked
              THEN /\ transportCalls < MaxCalls
                   /\ timeUp' = TRUE
                   /\ isSubmitting' = TRUE
                   /\ HandleSubmitTest("timeout", TRUE, rendered.isSubmitting,
                                       rendered.testSubmitted, answers)
              ELSE /\ lastEvent' = IF step.fire
                                   THEN Event("timeout", "trigger", "noop")
                                   ELSE lastEvent
                   /\ UNCHANGED <<timeUp, isSubmitting, submissionStartedRef,
                                  requests, transportCalls>>
    /\ UNCHANGED <<questions, answers, currentQuestionIndex, duration>>
    /\ UNCHANGED <<testSubmitted, warningCount, rollbacks, focusEvents, rendered, fx, uiEvent>>
    /\ UNCHANGED <<resultVars, selectionVars>>

\* ------------------------------------------------------------ focus loss
\* handleVisibilityChange / handleBlur as installed by the last run of their
\* effect: warningCount and handleSubmitTest (with its answers) come from
\* that render.  The listeners are installed only when that render saw
\* neither isSubmitting nor testSubmitted.
FocusHandler(reacts) ==
    LET newWarningCount == fx.warningCount + 1
    IN  IF ~reacts
        THEN /\ UNCHANGED <<lastEvent, warningCount, isSubmitting, submissionStartedRef,
                            requests, transportCalls>>
        ELSE /\ warningCount' = newWarningCount
             /\ IF newWarningCount > MAX_WARNINGS
                THEN LET out == SubmitOutcome(TRUE, TRUE, FALSE, FALSE, fx.answers)
                     IN  /\ out = "started" => transportCalls < MaxCalls
                         /\ HandleSubmitTest("forced_violation", TRUE, FALSE, FALSE, fx.answers)
                         /\ isSubmitting' = IF out = "started" THEN TRUE ELSE isSubmitting
                ELSE /\ UNCHANGED <<lastEvent, isSubmitting, submissionStartedRef,
                                    requests, transportCalls>>

\* visibilitychange is not a discrete event: its updates wait for Render.
HandleVisibilityChange(hidden) ==
    /\ screen = "test"
    /\ fx.installed
    /\ FocusHandler(hidden)
    /\ UNCHANGED <<questions, answers, currentQuestionIndex, duration>>
    /\ UNCHANGED <<timeUp, testSubmitted, rollbacks, rendered, fx, uiEvent>>
    /\ UNCHANGED <<timerVars, resultVars, selectionVars>>

\* blur is a discrete event: its updates are committed right after the listener.
HandleBlur(hidden) ==
    /\ screen = "test"
    /\ fx.installed
    /\ FocusHandler(~hidden)
    /\ CommitRender(isSubmitting', testSubmitted, timeUp, warningCount', answers)
    /\ UNCHANGED <<questions, answers, currentQuestionIndex, duration>>
    /\ UNCHANGED <<timeUp, testSubmitted, rollbacks, uiEvent>>
    /\ UNCHANGED <<timerVars, resultVars, selectionVars>>

\* ---------------------------------------------------------------- render
Render ==
    /\ screen = "test"
    /\ Dirty
    /\ CommitRender(isSubmitting, testSubmitted, timeUp, warningCount, answers)
    /\ UNCHANGED <<questions, answers, currentQuestionIndex, duration, lastEvent, uiEvent>>
    /\ UNCHANGED <<sessionVars, timerVars, resultVars, selectionVars, focusEvents>>

\* ---------------------------------------------------- transport response
\* Mutant: the ref is left set when a failed submission is rolled back.
RollBack_KeepsFlag ==
    /\ isSubmitting' = FALSE
    /\ rollbacks' = rollbacks + 1
    /\ UNCHANGED submissionStartedRef

\* Mutant: isSubmitting is left set when a failed submission is rolled back.
RollBack_KeepsSubmitting ==
    /\ submissionStartedRef' = FALSE
    /\ rollbacks' = rollbacks + 1
    /\ UNCHANGED isSubmitting

\* setIsSubmitting(false); submissionStartedRef.current = false
RollBack ==
    /\ isSubmitting' = FALSE
    /\ submissionStartedRef' = FALSE
    /\ rollbacks' = rollbacks + 1

\* Sequence s without its i-th element.
RemoveAt(s, i) == [j \in 1..(Len(s) - 1) |-> IF j < i THEN s[j] ELSE s[j + 1]]

\* Mutant: the flag and isSubmitting are reset after a submission that succeeded too.
Respond_ResetsOnSuccess(i, outcome) ==
    /\ i \in 1..Len(requests)
    /\ LET effect == ResponseEffect(outcome, requests[i].autoSubmit)
       IN  /\ lastEvent' = Event(requests[i].reason, outcome, effect)
           /\ IF effect = "rolled_back"
              THEN /\ RollBack
                   /\ UNCHANGED <<testSubmitted, screen, contextTestResults, resultsView>>
              ELSE /\ testSubmitted' = TRUE
                   /\ contextTestResults' = (effect = "submitted")
                   /\ screen' = "results"
                   /\ resultsView' = [stage |-> "mounted", loading |-> TRUE, results |-> FALSE,
                                      toast |-> ""]
                   /\ isSubmitting' = FALSE
                   /\ submissionStartedRef' = FALSE
                   /\ UNCHANGED rollbacks
    /\ requests' = RemoveAt(requests, i)
    /\ UNCHANGED <<questions, answers, currentQuestionIndex, duration>>
    /\ UNCHANGED <<timeUp, warningCount, transportCalls, focusEvents, rendered, fx, uiEvent>>
    /\ UNCHANGED <<testResults, selectionVars>>
    /\ UNCHANGED timerVars

\* The continuation of handleSubmitTest after the await, for the i-th call
\* in flight and the transport's answer to it.
Respond(i, outcome) ==
    /\ i \in 1..Len(requests)
    /\ LET effect == ResponseEffect(outcome, requests[i].autoSubmit)
       IN  /\ lastEvent' = Event(requests[i].reason, outcome, effect)
           /\ IF effect = "rolled_back"
              THEN /\ RollBack
                   /\ UNCHANGED <<testSubmitted, screen, contextTestResults, resultsView>>
              ELSE /\ testSubmitted' = TRUE
                   /\ contextTestResults' = (effect = "submitted")
                   /\ screen' = "results"
                   /\ resultsView' = [stage |-> "mounted", loading |-> TRUE, results |-> FALSE,
                                      toast |-> ""]
                   /\ UNCHANGED <<isSubmitting, submissionStartedRef, rollbacks>>
    /\ requests' = RemoveAt(requests, i)
    /\ UNCHANGED <<questions, answers, currentQuestionIndex, duration>>
    /\ UNCHANGED <<timeUp, warningCount, transportCalls, focusEvents, rendered, fx, uiEvent>>
    /\ UNCHANGED <<testResults, selectionVars>>
    /\ UNCHANGED timerVars

\* ---------------------------------------------------------- results page
\* The mount effect of TestResults.
ResultsMount ==
    /\ screen = "results"
    /\ resultsView.stage = "mounted"
    /\ resultsView' = IF contextTestResults
                      THEN [stage |-> "done", loading |-> FALSE, results |-> TRUE,
                            toast |-> ""]
                      ELSE [stage |-> "fetching", loading |-> TRUE, results |-> FALSE,
                            toast |-> ""]
    /\ UNCHANGED <<questions, answers, currentQuestionIndex, duration, rendered, fx, lastEvent, uiEvent>>
    /\ UNCHANGED <<sessionVars, timerVars, focusEvents, screen, contextTestResults, testResults>>
    /\ UNCHANGED selectionVars

\* Mutant: loading is cleared only when the results have arrived.
FetchRespond_KeepsLoading(outcome) ==
    /\ screen = "results"
    /\ resultsView.stage = "fetching"
    /\ IF outcome = "success"
       THEN /\ resultsView' = [stage |-> "done", loading |-> FALSE, results |-> TRUE,
                               toast |-> ""]
            /\ contextTestResults' = TRUE
            /\ screen' = screen
       ELSE /\ resultsView' = [stage |-> "done", loading |-> TRUE, results |-> FALSE,
                               toast |-> "Failed to load test results"]
            /\ screen' = "selection"
            /\ UNCHANGED contextTestResults
    /\ UNCHANGED <<questions, answers, currentQuestionIndex, duration, rendered, fx, lastEvent, uiEvent>>
    /\ UNCHANGED <<sessionVars, timerVars, focusEvents, testResults, selectionVars>>

\* The continuation of fetchResults after the await, its finally included.
FetchRespond(outcome) ==
    /\ screen = "results"
    /\ resultsView.stage = "fetching"
    /\ IF outcome = "success"
       THEN /\ resultsView' = [stage |-> "done", loading |-> FALSE, results |-> TRUE,
                               toast |-> ""]
            /\ contextTestResults' = TRUE
            /\ screen' = screen
       ELSE /\ resultsView' = [stage |-> "done", loading |-> FALSE, results |-> FALSE,
                               toast |-> "Failed to load test results"]
            /\ screen' = "selection"
            /\ UNCHANGED contextTestResults
    /\ UNCHANGED <<questions, answers, currentQuestionIndex, duration, rendered, fx, lastEvent, uiEvent>>
    /\ UNCHANGED <<sessionVars, timerVars, focusEvents, testResults, selectionVars>>

\* ------------------------------------------------------------------ spec
Next ==
    \/ \E optionKey \in ClickedOptions :
          HandleAnswerSelect(optionKey) /\ UNCHANGED uiEvent
    \/ HandleClearAnswer /\ UNCHANGED uiEvent
    \/ HandleNext /\ UNCHANGED uiEvent
    \/ HandlePrevious /\ UNCHANGED uiEvent
    \/ \E index \in 0..(K - 1) : HandleQuestionJump(index) /\ UNCHANGED uiEvent
    \/ \E confirmed \in BOOLEAN : ClickSubmit(confirmed)
    \/ Tick
    \/ \E hidden \in BOOLEAN : HandleVisibilityChange(hidden) /\ UNCHANGED focusEvents
    \/ \E hidden \in BOOLEAN : HandleBlur(hidden) /\ UNCHANGED focusEvents
    \/ Render
    \/ \E i \in 1..MaxCalls, outcome \in Outcomes : Respond(i, outcome)
    \/ ResultsMount
    \/ \E outcome \in Outcomes : FetchRespond(outcome)

Spec == Init /\ [][Next]_vars

\* The focus listeners with every event they react to counted in
\* focusEvents, next to the timer and the transport's answers.
CountFocusEvent(reacts) ==
    focusEvents' = IF reacts /\ focusEvents < MaxFocusEvents
                   THEN focusEvents + 1 ELSE focusEvents

NextFocus ==
    \/ \E hidden \in BOOLEAN : HandleVisibilityChange(hidden) /\ CountFocusEvent(hidden)
    \/ \E hidden \in BOOLEAN : HandleBlur(hidden) /\ CountFocusEvent(~hidden)
    \/ Tick
    \/ Render
    \/ \E i \in 1..MaxCalls, outcome \in Outcomes : Respond(i, outcome)

SpecFocus == Init /\ [][NextFocus]_vars

\* The answer and navigation handlers with every click recorded in uiEvent,
\* two option labels, and manual submission.
NextAnswers ==
    \/ \E optionKey \in OverwriteOptions :
          /\ HandleAnswerSelect(optionKey)
          /\ uiEvent' = UiEvent("select", optionKey, QuestionId(CurrentQuestion))
    \/ /\ HandleClearAnswer
       /\ uiEvent' = UiEvent("clear", "", QuestionId(CurrentQuestion))
    \/ /\ HandleNext
       /\ uiEvent' = UiEvent("next", "", currentQuestionIndex)
    \/ /\ HandlePrevious
       /\ uiEvent' = UiEvent("previous", "", currentQuestionIndex)
    \/ \E index \in 0..(K - 1) :
          /\ HandleQuestionJump(index)
          /\ uiEvent' = UiEvent("jump", "", index)
    \/ \E confirmed \in BOOLEAN : ClickSubmit(confirmed)
    \/ Render
    \/ \E i \in 1..MaxCalls, outcome \in Outcomes : Respond(i, outcome)

SpecAnswers == Init /\ [][NextAnswers]_vars

\* The navigation handlers called with any index, also one below and one
\* above the range the question buttons offer, next to answer selection.
JumpArguments == (0 - 1)..K

NextNavigate ==
    \/ \E optionKey \in OverwriteOptions :
          /\ HandleAnswerSelect(optionKey)
          /\ uiEvent' = UiEvent("select", optionKey, QuestionId(CurrentQuestion))
    \/ /\ HandleNext
       /\ uiEvent' = UiEvent("next", "", currentQuestionIndex)
    \/ /\ HandlePrevious
       /\ uiEvent' = UiEvent("previous", "", currentQuestionIndex)
    \/ \E index \in JumpArguments :
          /\ HandleQuestionJump(index)
          /\ uiEvent' = UiEvent("jump", "", index)

SpecNavigate == Init /\ [][NextNavigate]_vars

\* ------------------------------------------------------ scoring a test
\* The submitted answers are scored against the correct options and the
\* result is what the results page shows.
ScoreTest(correctOptions) ==
    /\ ~testResults.scored
    /\ testResults' = Score(BuildAnswersArray(answers), correctOptions)
    /\ UNCHANGED <<questions, answers, currentQuestionIndex, duration, rendered, fx,
                   sessionVars, timerVars, focusEvents, screen, contextTestResults,
                   resultsView, selectionVars, uiEvent, lastEvent>>

NextScore ==
    \/ \E optionKey \in OverwriteOptions :
          HandleAnswerSelect(optionKey) /\ UNCHANGED uiEvent
    \/ HandleNext /\ UNCHANGED uiEvent
    \/ HandlePrevious /\ UNCHANGED uiEvent
    \/ \E correctOptions \in [1..K -> OverwriteOptions] : ScoreTest(correctOptions)

SpecScore == Init /\ [][NextScore]_vars

\* ------------------------------------------------- the Timer on its own
\* The Timer component under a parent that keeps it mounted, may pause it
\* through isActive and may hand it a new duration; onTimeUp calls are counted.
nonTimerVars == <<questions, answers, currentQuestionIndex, fx,
                  sessionVars, resultVars, selectionVars, focusEvents, uiEvent, lastEvent>>

\* The parent renders the Timer with isActive = active.
ParentSetsActive(active) ==
    /\ TimerActive # active
    /\ rendered' = [rendered EXCEPT !.isSubmitting = ~active]
    /\ UNCHANGED <<duration, timerVars, nonTimerVars>>

\* One setInterval callback; the interval exists while isActive.
TimerTick ==
    /\ TimerActive
    /\ LET step == TimerStep(timeLeft, timeUpCalledRef)
       IN  /\ timeLeft' = step.timeLeft
           /\ timeUpCalledRef' = step.latch
           /\ timeUpEvents' = IF step.fire THEN timeUpEvents + 1 ELSE timeUpEvents
    /\ ticks' = IF ticks <= duration THEN ticks + 1 ELSE ticks
    /\ UNCHANGED <<duration, rendered, nonTimerVars>>

\* Mutant: the latch is not cleared when the duration changes.
DurationEffect_KeepsLatch(newDuration) ==
    /\ newDuration # duration
    /\ timeUpEvents < MaxFires
    /\ duration' = newDuration
    /\ timeLeft' = newDuration
    /\ ticks' = 0
    /\ UNCHANGED <<timeUpCalledRef, timeUpEvents, rendered, nonTimerVars>>

\* The effect with dependency [duration], run when the prop has changed.
DurationEffect(newDuration) ==
    /\ newDuration # duration
    /\ timeUpEvents < MaxFires
    /\ duration' = newDuration
    /\ timeLeft' = newDuration
    /\ timeUpCalledRef' = FALSE
    /\ ticks' = 0
    /\ UNCHANGED <<timeUpEvents, rendered, nonTimerVars>>

\* the durations a parent hands to the Timer
LoadedDurations == 1..(MaxDuration + 1)

NextTimer ==
    \/ TimerTick
    \/ \E active \in BOOLEAN : ParentSetsActive(active)
    \/ \E newDuration \in LoadedDurations : DurationEffect(newDuration)

SpecTimer == Init /\ [][NextTimer]_vars

\* ---------------------------------------------------- the selection page
\* TestSelection over the TestContext state. Its handlers are called in every
\* state of the context, startTest also where the page does not render the
\* Start button.
selectionOtherVars == <<questions, answers, currentQuestionIndex, duration, rendered, fx,
                        sessionVars, timerVars, resultVars, focusEvents>>

Subjects == 1..MaxSubjects

\* response.data.topics of getTopicsBySubject(subjectId): the topic ids
\* (one topic stands for the list)
TopicsOf(subjectId) == <<10 * subjectId + 1>>

\* the subject whose list a topic id comes from
SubjectOfTopic(topicId) == topicId \div 10

\* the counts of the six buttons
ButtonCounts == {5, 10, 15, 20, 25, 30}

\* the counts handleQuestionCountChange is called with: one of the buttons'
\* and one that no button offers
CountArguments == {5, 7}

\* testReducer
TestReducer(state, type, payload) ==
    CASE type = "SET_TOPICS" -> [state EXCEPT !.topics = payload]
      [] type = "SET_SELECTED_SUBJECT" ->
             [state EXCEPT !.selectedSubject = payload, !.selectedTopic = 0]
      [] type = "SET_SELECTED_TOPIC" -> [state EXCEPT !.selectedTopic = payload]
      [] type = "SET_QUESTION_COUNT" -> [state EXCEPT !.questionCount = payload]
      [] type = "SET_TEST_TYPE" -> [state EXCEPT !.testType = payload]
      [] type = "SET_CURRENT_TEST" -> [state EXCEPT !.currentTest = payload]
      [] OTHER -> state

\* the number of getTopicsBySubject calls in flight
RECURSIVE FetchesInFlight(_)
FetchesInFlight(subjectId) ==
    IF subjectId = 0 THEN 0
    ELSE topicFetches[subjectId] + FetchesInFlight(subjectId - 1)

\* handleSubjectSelect and, when selectedSubject has changed, the effect
\* that calls fetchTopics up to its await. uiEvent records whether the
\* change was made while a topic fetch was in flight.
HandleSubjectSelect(subject) ==
    /\ subject # context.selectedSubject => FetchesInFlight(MaxSubjects) < MaxCalls
    /\ uiEvent' = IF subject = context.selectedSubject THEN uiEvent
                  ELSE IF FetchesInFlight(MaxSubjects) > 0
                  THEN UiEvent("subject", "fetch pending", 0)
                  ELSE UiEvent("subject", "no fetch pending", 0)
    /\ context' = TestReducer(TestReducer(context, "SET_SELECTED_SUBJECT", subject),
                              "SET_TEST_TYPE", "topic")
    /\ topicFetches' = IF subject # context.selectedSubject
                       THEN [topicFetches EXCEPT ![subject] = @ + 1]
                       ELSE topicFetches
    /\ UNCHANGED <<startingTest, startRequests, lastEvent, selectionOtherVars>>

\* The continuation of fetchTopics(subjectId) after the await, for any of
\* the calls in flight.
FetchTopicsRespond(subjectId, outcome) ==
    /\ topicFetches[subjectId] > 0
    /\ IF outcome = "success"
       THEN context' = TestReducer(context, "SET_TOPICS", TopicsOf(subjectId))
       ELSE UNCHANGED context
    /\ topicFetches' = [topicFetches EXCEPT ![subjectId] = @ - 1]
    /\ UNCHANGED <<startingTest, startRequests, uiEvent, lastEvent, selectionOtherVars>>

\* handleTopicSelect on one of the topics listed under Step 3.
HandleTopicSelect(topic) ==
    /\ context.selectedSubject # 0
    /\ context.testType = "topic"
    /\ \E j \in 1..Len(context.topics) : context.topics[j] = topic
    /\ context' = TestReducer(context, "SET_SELECTED_TOPIC", topic)
    /\ UNCHANGED <<startingTest, topicFetches, startRequests, uiEvent, lastEvent, selectionOtherVars>>

\* handleTestTypeChange on one of the two cards under Step 2.
HandleTestTypeChange(testType) ==
    /\ context.selectedSubject # 0
    /\ context' = IF testType # "topic"
                  THEN TestReducer(TestReducer(context, "SET_TEST_TYPE", testType),
                                   "SET_SELECTED_TOPIC", 0)
                  ELSE TestReducer(context, "SET_TEST_TYPE", testType)
    /\ UNCHANGED <<startingTest, topicFetches, startRequests, uiEvent, lastEvent, selectionOtherVars>>

\* handleQuestionCountChange
HandleQuestionCountChange(count) ==
    /\ context' = TestReducer(context, "SET_QUESTION_COUNT", count)
    /\ UNCHANGED <<startingTest, topicFetches, startRequests, uiEvent, lastEvent, selectionOtherVars>>

\* testData as startTest builds it; topic_id 0 stands for the key left out.
TestData(state) ==
    [subject_id |-> state.selectedSubject,
     question_count |-> state.questionCount,
     topic_id |-> IF state.testType = "topic" /\ state.selectedTopic # 0
                  THEN state.selectedTopic ELSE 0]

\* Mutant: startTest without the test for a missing topic.
StartTest_NoTopicCheck ==
    /\ ~startingTest
    /\ context.currentTest < MaxCalls
    /\ IF context.selectedSubject = 0
       THEN /\ lastEvent' = Event("startTest", "toast.error", "Please select a subject")
            /\ UNCHANGED <<startingTest, startRequests>>
       ELSE /\ startingTest' = TRUE
            /\ startRequests' = Append(startRequests, TestData(context))
            /\ lastEvent' = Event("startTest", "request", "sent")
    /\ UNCHANGED <<context, topicFetches, uiEvent, selectionOtherVars>>

\* startTest up to its await; the Start button is disabled while startingTest.
StartTest ==
    /\ ~startingTest
    /\ context.currentTest < MaxCalls
    /\ IF context.selectedSubject = 0
       THEN /\ lastEvent' = Event("startTest", "toast.error", "Please select a subject")
            /\ UNCHANGED <<startingTest, startRequests>>
       ELSE IF context.testType = "topic" /\ context.selectedTopic = 0
       THEN /\ lastEvent' = Event("startTest", "toast.error", "Please select a topic")
            /\ UNCHANGED <<startingTest, startRequests>>
       ELSE /\ startingTest' = TRUE
            /\ startRequests' = Append(startRequests, TestData(context))
            /\ lastEvent' = Event("startTest", "request", "sent")
    /\ UNCHANGED <<context, topicFetches, uiEvent, selectionOtherVars>>

\* start(subject, topic?, questionCount) in the backend: the answers it can
\* give to a start request.
StartOutcomes(testData) ==
    IF testData.question_count \in ButtonCounts THEN Outcomes ELSE {"unsuccessful", "error"}

\* Mutant: the response is taken as a started test whatever it says.
StartRespond_AnyResponse(outcome) ==
    /\ startRequests # <<>>
    /\ outcome \in StartOutcomes(startRequests[1])
    /\ IF outcome # "error"
       THEN /\ context' = TestReducer(context, "SET_CURRENT_TEST", context.currentTest + 1)
            /\ lastEvent' = Event("startTest", outcome, "Test started successfully!")
       ELSE /\ lastEvent' = Event("startTest", outcome, "Failed to start test")
            /\ UNCHANGED context
    /\ startingTest' = FALSE
    /\ startRequests' = Tail(startRequests)
    /\ UNCHANGED <<topicFetches, uiEvent, selectionOtherVars>>

\* The continuation of startTest after the await; a started test is
\* numbered one above the current one.
StartRespond(outcome) ==
    /\ startRequests # <<>>
    /\ outcome \in StartOutcomes(startRequests[1])
    /\ IF outcome = "success"
       THEN /\ context' = TestReducer(context, "SET_CURRENT_TEST", context.currentTest + 1)
            /\ lastEvent' = Event("startTest", outcome, "Test started successfully!")
       ELSE /\ lastEvent' = Event("startTest", outcome, "Failed to start test")
            /\ UNCHANGED context
    /\ startingTest' = FALSE
    /\ startRequests' = Tail(startRequests)
    /\ UNCHANGED <<topicFetches, uiEvent, selectionOtherVars>>

NextSelection ==
    \/ \E subject \in Subjects : HandleSubjectSelect(subject)
    \/ \E subjectId \in Subjects, outcome \in Outcomes : FetchTopicsRespond(subjectId, outcome)
    \/ \E subject \in Subjects :
          \E j \in 1..Len(TopicsOf(subject)) : HandleTopicSelect(TopicsOf(subject)[j])
    \/ \E testType \in {"topic", "subject"} : HandleTestTypeChange(testType)
    \/ StartTest
    \/ \E outcome \in Outcomes : StartRespond(outcome)

SpecSelection == Init /\ [][NextSelection]_vars

\* Starting a test with any question count: handleQuestionCountChange is
\* called with a count of the buttons and with one that no button offers;
\* the topic fetches are left unanswered.
NextStart ==
    \/ \E subject \in Subjects : HandleSubjectSelect(subject)
    \/ \E testType \in {"topic", "subject"} : HandleTestTypeChange(testType)
    \/ \E count \in CountArguments : HandleQuestionCountChange(count)
    \/ StartTest
    \/ \E outcome \in Outcomes : StartRespond(outcome)

SpecStart == Init /\ [][NextStart]_vars

TypeOK ==
    /\ currentQuestionIndex \in 0..(K - 1)
    /\ timeLeft \in 0..duration
    /\ transportCalls \in 0..MaxCalls
    /\ screen \in {"test", "results", "selection"}

\* ================================================================ claims
InProgress == ~testSubmitted
Pending == requests # <<>>
StartsCall == Len(requests') > Len(requests)
AnswersCall == Len(requests') < Len(requests)
\* a submit trigger ran in this step and lastEvent' describes it
TriggerStep == lastEvent' # lastEvent /\ lastEvent'.kind = "trigger"
EmptyEntry(e) == e.answer = "" /\ e.time_taken = 0

\* C1: a transport call is started only from a state with no call pending and
\* the submission flag clear, the flag is set in the very step that starts the
\* call and stays set while the call is pending; so every trigger that arrives
\* while a submission is in flight starts nothing and at most one call is pending.
C1_AtMostOnePending ==
    [][/\ StartsCall => (~Pending /\ ~submissionStartedRef /\ Len(requests') = 1)
       /\ Pending' => submissionStartedRef'
       /\ (Pending /\ TriggerStep) => (lastEvent'.result = "noop" /\ requests' = requests)]_vars

\* a manual click was ignored while a call started by another trigger is pending
C1_Witness ==
    /\ Len(requests) = 1
    /\ requests[1].reason = "timeout"
    /\ lastEvent = Event("manual", "trigger", "noop")

\* C2 (as stated): the transport is invoked exactly once over the life of the
\* session, however many triggers fire.
C2_Original == transportCalls <= 1

\* C2 (amended): the transport is invoked once for the submission that is
\* pending or has ended the session, plus once for every earlier submission
\* that failed and was rolled back; never twice at a time and never after the
\* session is submitted.
C2_OneCallPerAcceptedSubmit ==
    transportCalls = rollbacks + (IF Pending \/ testSubmitted THEN 1 ELSE 0)

\* a retry after a rolled-back submission has ended the session
C2_Witness ==
    /\ transportCalls = 2
    /\ rollbacks = 1
    /\ testSubmitted

\* C3: the payload handed to the transport has one entry per question, in
\* question order, carrying that question's identifier, no identifier twice;
\* a question the handler saw no answer for is sent with empty selection and
\* time 0, an answered one with its answer.
C3_PayloadComplete ==
    [][StartsCall =>
        LET call == requests'[Len(requests')]
            payload == call.answersArray
            seen == IF call.reason = "forced_violation" THEN fx.answers ELSE answers
        IN  /\ Len(payload) = K
            /\ \A i \in 1..K :
                  LET questionId == QuestionId(questions[i])
                  IN  /\ payload[i].question_id = questionId
                      /\ seen[questionId] = NoAnswer => EmptyEntry(payload[i])
                      /\ seen[questionId] # NoAnswer => payload[i] = seen[questionId]
            /\ \A i, j \in 1..K :
                  payload[i].question_id = payload[j].question_id => i = j]_vars

\* a payload in flight with an answered and an unanswered question
C3_Witness ==
    /\ Len(requests) = 1
    /\ \E i, j \in 1..K :
          /\ requests[1].answersArray[i].answer \in Options
          /\ EmptyEntry(requests[1].answersArray[j])

\* C4 (as stated): after a timeout or forced-violation submission hit a
\* transport error the flag is still set, the session is submitted and the
\* user ends up with a result on the results page, not on the live test
\* screen and not without a result.
C4_Original ==
    (lastEvent.op \in {"timeout", "forced_violation"} /\ lastEvent.kind = "error") =>
        /\ submissionStartedRef
        /\ testSubmitted
        /\ screen = "results"
        /\ resultsView.stage = "done" => resultsView.results

\* C5 (as stated): whatever the transport answers to a timeout or
\* forced-violation submission, the session is submitted in that step (and so
\* no second call can follow).
C5_Original ==
    [][\A i \in 1..Len(requests) :
          (requests[i].autoSubmit /\ requests' = RemoveAt(requests, i)) => testSubmitted']_vars

\* C6: a manual submission answered with a failure is rolled back (flag and
\* isSubmitting clear, session in progress on the test screen, answers and
\* cursor untouched), and the next submit trigger after it is not ignored: it
\* starts a transport call, unless it is a manual submit that is cancelled or
\* has no answer.
C6_ManualFailureAllowsRetry ==
    [][/\ (AnswersCall /\ lastEvent'.op = "manual" /\ lastEvent'.kind # "success") =>
            /\ ~submissionStartedRef'
            /\ ~isSubmitting'
            /\ ~testSubmitted'
            /\ screen' = "test"
            /\ answers' = answers
            /\ currentQuestionIndex' = currentQuestionIndex
       /\ (lastEvent.op = "manual" /\ lastEvent.kind \in {"error", "unsuccessful"}
            /\ TriggerStep) =>
            \/ lastEvent'.result = "started" /\ StartsCall
            \/ /\ lastEvent'.op = "manual"
               /\ lastEvent'.result = "cancelled"
            \/ /\ lastEvent'.op = "manual"
               /\ lastEvent'.result = "validation_error"
               /\ AnsweredCount(answers) = 0]_vars

\* the timer started a call after the only earlier call, a manual one, failed
C6_Witness ==
    /\ Len(requests) = 1
    /\ requests[1].reason = "timeout"
    /\ transportCalls = 2
    /\ rollbacks = 1
    /\ warningCount <= MAX_WARNINGS

\* C7: a submit that sees no answer is rejected exactly when it is manual: a
\* manual one starts no call and leaves flag, isSubmitting and status alone; a
\* timeout or forced-violation one that is not a duplicate starts a call with
\* K empty entries.
C7_EmptyRejectedIffManual ==
    [][TriggerStep =>
        LET seen == IF lastEvent'.op = "forced_violation" THEN fx.answers ELSE answers
        IN  /\ lastEvent'.result = "validation_error" =>
                  (lastEvent'.op = "manual" /\ AnsweredCount(seen) = 0)
            /\ (lastEvent'.op = "manual" /\ AnsweredCount(seen) = 0) =>
                  /\ lastEvent'.result \in {"validation_error", "noop"}
                  /\ UNCHANGED <<requests, transportCalls, submissionStartedRef,
                                 isSubmitting, testSubmitted>>
            /\ (lastEvent'.op # "manual" /\ AnsweredCount(seen) = 0
                  /\ lastEvent'.result # "noop") =>
                  /\ StartsCall
                  /\ Len(requests'[Len(requests')].answersArray) = K
                  /\ \A i \in 1..K : EmptyEntry(requests'[Len(requests')].answersArray[i])]_vars

\* a manual submit with no answer was rejected and nothing was started
C7_Witness ==
    /\ lastEvent = Event("manual", "trigger", "validation_error")
    /\ AnsweredCount(answers) = 0
    /\ ~Pending
    /\ ~submissionStartedRef
    /\ InProgress

\* C8: with no call pending the session is either in progress with flag and
\* isSubmitting clear, or submitted with the flag set.
C8_DefinedStateWhenIdle ==
    ~Pending =>
        \/ InProgress /\ ~submissionStartedRef /\ ~isSubmitting
        \/ testSubmitted /\ submissionStartedRef

\* a failed submission has been rolled back and nothing is pending
C8_Witness ==
    /\ ~Pending
    /\ rollbacks > 0
    /\ InProgress
    /\ lastEvent.result = "rolled_back"

\* C9 (as stated): the timer is never expired (at zero with its latch set, or
\* removed because timeUp is set) while the session is in progress with no
\* submission pending.
TimerExpired == (timeLeft = 0 /\ timeUpCalledRef) \/ timeUp

C9_Original ==
    ~(TimerExpired /\ InProgress /\ ~Pending)

\* C10: the Timer fires onTimeUp on its d-th tick, in the step that brings
\* timeLeft to 0, and never again; timeLeft stays 0 on further ticks.
C10_FiresOnceAtZero ==
    IF ticks < duration
    THEN timeLeft = duration - ticks /\ timeUpEvents = 0 /\ ~timeUpCalledRef
    ELSE timeLeft = 0 /\ timeUpEvents = 1 /\ timeUpCalledRef

\* the interval callback ran again after the timer had fired
C10_Witness ==
    /\ ticks > duration
    /\ duration > 1
    /\ timeLeft = 0
    /\ timeUpEvents = 1

\* C11 (as stated): while the session is submitting (isSubmitting set), no
\* step changes timeLeft and no time-up event reaches the controller.
C11_Original ==
    [][isSubmitting => (timeLeft' = timeLeft /\ timeUpEvents' = timeUpEvents)]_vars

\* C11 (amended): once the render that follows the start of a submission has
\* been committed (the Timer's isActive is false), no step changes timeLeft,
\* the latch or the number of time-up events; a time-up event delivered
\* before that render, while a call is pending, starts nothing.
C11_PausedOnceRendered ==
    [][/\ rendered.isSubmitting =>
            /\ timeLeft' = timeLeft
            /\ timeUpCalledRef' = timeUpCalledRef
            /\ timeUpEvents' = timeUpEvents
       /\ (isSubmitting /\ Pending /\ timeUpEvents' # timeUpEvents) =>
            /\ lastEvent' = Event("timeout", "trigger", "noop")
            /\ UNCHANGED <<requests, transportCalls, submissionStartedRef,
                           isSubmitting, timeUp, testSubmitted>>]_vars

\* a time-up event arrived while a forced-violation call was pending and
\* started nothing
C11_Witness ==
    /\ Len(requests) = 1
    /\ requests[1].reason = "forced_violation"
    /\ isSubmitting
    /\ lastEvent = Event("timeout", "trigger", "noop")
    /\ timeLeft = 0

\* a focus-loss event the listeners reacted to (counted below the cap)
FocusStep == focusEvents' = focusEvents + 1
ForcedTrigger == lastEvent' # lastEvent /\ lastEvent'.op = "forced_violation"
                    /\ lastEvent'.kind = "trigger"

\* C12 (as stated): the 1st focus-loss event emits the first warning (counter
\* 1), the 2nd the final warning (counter 2), both leaving the session in
\* progress with nothing started, and the 3rd calls submit(forced_violation);
\* no forced submit is triggered before the 3rd event.
C12_Original ==
    [][FocusStep =>
        /\ focusEvents' = 1 => (warningCount' = 1 /\ ~ForcedTrigger /\ ~testSubmitted')
        /\ focusEvents' = 2 => (warningCount' = 2 /\ ~ForcedTrigger /\ ~testSubmitted')
        /\ focusEvents' = 3 => (warningCount' > MAX_WARNINGS /\ ForcedTrigger)]_vars

\* C13 (as stated): once the counter has passed MAX_WARNINGS (the 3rd
\* violation has called the forced submit), every later focus-loss event is
\* ignored: the counter keeps its value, no event is reacted to, and no
\* further forced submit is triggered.
C13_Original ==
    [][warningCount > MAX_WARNINGS =>
        /\ warningCount' = warningCount
        /\ focusEvents' = focusEvents
        /\ ~ForcedTrigger]_vars

\* C14 (as stated): a focus-loss event that arrives after a submission has
\* begun (flag or isSubmitting set) or after the session is submitted leaves
\* the counter unchanged and is not reacted to.
C14_Original ==
    [][(submissionStartedRef \/ isSubmitting \/ testSubmitted) =>
        /\ warningCount' = warningCount
        /\ focusEvents' = focusEvents]_vars

\* a click on an answer or navigation control, recorded in uiEvent'
UiStep(op) == uiEvent' # uiEvent /\ uiEvent'.op = op

\* C15: selecting an option for the current question leaves that question
\* with one answer record carrying its id and the selected label, whatever
\* it held before; the number of answered questions grows by one only if it
\* had none; the answers of all other questions and the cursor are unchanged.
C15_SelectOverwrites ==
    [][UiStep("select") =>
        LET q == uiEvent'.target
        IN  /\ q = QuestionId(CurrentQuestion)
            /\ answers'[q].question_id = q
            /\ answers'[q].answer = uiEvent'.option
            /\ AnsweredCount(answers') =
                  AnsweredCount(answers) + (IF answers[q] = NoAnswer THEN 1 ELSE 0)
            /\ \A r \in QuestionIds \ {q} : answers'[r] = answers[r]
            /\ currentQuestionIndex' = currentQuestionIndex]_vars

\* the last click selected B for a question while another question holds A
C15_Witness ==
    /\ uiEvent.op = "select"
    /\ uiEvent.option = "B"
    /\ answers[uiEvent.target].answer = "B"
    /\ \E r \in QuestionIds \ {uiEvent.target} : answers[r].answer = "A"
    /\ InProgress

\* C16 (as stated): once a submission has begun (flag or isSubmitting set) or
\* the session is submitted, no step changes the answers or the cursor.
C16_Original ==
    [][(submissionStartedRef \/ isSubmitting \/ testSubmitted) =>
        /\ answers' = answers
        /\ currentQuestionIndex' = currentQuestionIndex]_vars

C19_ResetRearms ==
    [][/\ duration' # duration =>
            /\ timeLeft' = duration'
            /\ ~timeUpCalledRef'
       /\ IF ticks' < duration'
          THEN timeLeft' = duration' - ticks' /\ ~timeUpCalledRef'
          ELSE timeLeft' = 0 /\ timeUpCalledRef'
       /\ timeUpEvents' = timeUpEvents +
            (IF duration' = duration /\ ticks = duration - 1 /\ ticks' = duration
             THEN 1 ELSE 0)]_vars

\* the Timer fired, was given a new duration and has fired a second time
C19_Witness ==
    /\ timeUpEvents = 2
    /\ timeLeft = 0
    /\ timeUpCalledRef
    /\ ticks > duration

\* C20: for every scored result over K questions the counts add up to K,
\* the raw score is 4*correct - wrong, negative when it is, and the Total
\* Score shown is that value.
C20_RawScoreShownUnclamped ==
    testResults.scored =>
        /\ testResults.total_questions = K
        /\ testResults.correct_answers + testResults.wrong_answers
              + testResults.not_attempted = K
        /\ testResults.neet_score =
              4 * testResults.correct_answers - testResults.wrong_answers
        /\ DisplayedTotalScore(testResults) =
              4 * testResults.correct_answers - testResults.wrong_answers
        /\ DisplayedWrong(testResults) = testResults.wrong_answers

\* every question answered wrongly: the total shown is minus K
C20_Witness ==
    /\ testResults.scored
    /\ testResults.correct_answers = 0
    /\ testResults.wrong_answers = K
    /\ DisplayedTotalScore(testResults) = 0 - K

\* C21: for every scored result the percentage is max(raw score, 0) over
\* 4*K times 100: it is never negative, never above 100, it is 0 whenever
\* the raw score is zero or negative, and the two percentages the results
\* page shows are that value rounded.
C21_PercentageClamped ==
    testResults.scored =>
        LET raw == testResults.neet_score
            pct == testResults.score_percentage
            floored == IF raw > 0 THEN raw ELSE 0
        IN  /\ pct * 4 * K <= floored * 100 * PercentScale
            /\ floored * 100 * PercentScale < (pct + 1) * 4 * K
            /\ pct >= 0
            /\ pct <= 100 * PercentScale
            /\ raw <= 0 => pct = 0
            /\ DisplayedScore(testResults) \in 0..100
            /\ DisplayedPercentage(testResults) \in 0..1000
            /\ raw <= 0 => /\ DisplayedScore(testResults) = 0
                           /\ DisplayedPercentage(testResults) = 0

\* a result with a negative raw score, shown as 0 percent
C21_Witness ==
    /\ testResults.scored
    /\ testResults.neet_score < 0
    /\ testResults.score_percentage = 0
    /\ DisplayedPercentage(testResults) = 0

\* C22: the grade band of a scored result follows from its percentage with
\* inclusive lower bounds 90, 75, 60 and 40 (22 marks of 40 are 55 percent
\* and Below Average), and every map from a percentage to a band puts the
\* result in that same band: the colour of the percentage on the results
\* page and its colour in the test history are the colour of the grade.
C22_Original ==
    /\ Percentage(4 * 6 - 2, 10) = 55 * PercentScale
    /\ Grade(Percentage(4 * 6 - 2, 10)) = "Below Average"
    /\ testResults.scored =>
          LET pct == testResults.score_percentage
              grade == testResults.grade
          IN  /\ grade = "Excellent" <=> pct >= 90 * PercentScale
              /\ grade = "Good" <=> (75 * PercentScale <= pct /\ pct < 90 * PercentScale)
              /\ grade = "Average" <=> (60 * PercentScale <= pct /\ pct < 75 * PercentScale)
              /\ grade = "Below Average" <=>
                     (40 * PercentScale <= pct /\ pct < 60 * PercentScale)
              /\ grade = "Poor" <=> pct < 40 * PercentScale
              /\ GetScoreColor(pct) = GetGradeColor(grade)
              /\ HistoryGetGradeColor(pct) = GetScoreColor(pct)

\* the subject, or the topic a topic-mode test needs, is missing
SelectionIncomplete ==
    \/ context.selectedSubject = 0
    \/ context.testType = "topic" /\ context.selectedTopic = 0

\* C24: while no subject is selected, or the test type is topic and no
\* topic is selected, no step sends a start request or sets startingTest,
\* and a start called in such a state only shows an error: the context, the
\* current test included, stays as it is.
C24_StartRejectedBeforeRequest ==
    [][/\ SelectionIncomplete =>
            /\ Len(startRequests') <= Len(startRequests)
            /\ startingTest' => startingTest
       /\ (lastEvent' # lastEvent /\ lastEvent'.kind = "toast.error") =>
            /\ SelectionIncomplete
            /\ context' = context
            /\ startRequests' = startRequests
            /\ startingTest' = startingTest]_vars

\* a start in topic mode with a subject but no topic was refused, and the
\* test started before it is still the current one
C24_Witness ==
    /\ lastEvent = Event("startTest", "toast.error", "Please select a topic")
    /\ context.selectedSubject # 0
    /\ context.testType = "topic"
    /\ context.selectedTopic = 0
    /\ context.currentTest = 1
    /\ startRequests = <<>>

C30_Original ==
    /\ (/\ uiEvent = UiEvent("subject", "fetch pending", 0)
        /\ FetchesInFlight(MaxSubjects) = 0) =>
            context.topics = TopicsOf(context.selectedSubject)
    /\ \A i \in 1..Len(startRequests) :
          startRequests[i].topic_id # 0 =>
              SubjectOfTopic(startRequests[i].topic_id) = startRequests[i].subject_id

\* the results page has given up on a lookup that failed
LookupFailed == resultsView.stage = "done" /\ ~resultsView.results

\* C26: a lookup of results that is answered unsuccessfully or with an
\* error shows the error, leaves for the selection screen, ends loading and
\* sets no results; from then on the page never shows results or loading.
C26_FailedLookupRedirects ==
    [][/\ (resultsView.stage = "fetching" /\ resultsView' # resultsView
              /\ ~resultsView'.results) =>
            /\ resultsView'.toast = "Failed to load test results"
            /\ screen' = "selection"
            /\ resultsView' = [stage |-> "done", loading |-> FALSE, results |-> FALSE,
                               toast |-> "Failed to load test results"]
            /\ contextTestResults' = contextTestResults
       /\ LookupFailed =>
            /\ ~resultsView.loading
            /\ resultsView' = resultsView
            /\ screen' = "selection"]_vars

\* a lookup has failed: the error was shown and the selection screen is open
C26_Witness ==
    /\ resultsView.toast = "Failed to load test results"
    /\ screen = "selection"
    /\ LookupFailed
    /\ ~resultsView.loading

\* C27: whatever the reason, the answers array of a call that starts is built
\* from the answers held at that moment: every answer selected, overwritten
\* or cleared before the trigger is in the payload.
C27_Original ==
    [][StartsCall =>
          LET call == requests'[Len(requests')]
          IN  /\ call.reason \in Reasons
              /\ call.answersArray = BuildAnswersArray(answers)]_vars

\* C28: every focus-loss event the listeners react to while the session is
\* in progress and no submission has been started raises the counter by
\* exactly one, so that after the n-th event (n <= 3) the counter is n, also
\* when the event follows another one before the next render.
C28_Original ==
    [][(FocusStep /\ InProgress /\ ~submissionStartedRef) =>
          /\ warningCount' = warningCount + 1
          /\ focusEvents' <= 3 => warningCount' = focusEvents']_vars

\* C29: once the session is submitted it stays submitted, the submission
\* flag stays set, and no further transport call is started.
C29_SubmittedIsAbsorbing ==
    [][testSubmitted =>
          /\ testSubmitted'
          /\ submissionStartedRef /\ submissionStartedRef'
          /\ ~StartsCall
          /\ transportCalls' = transportCalls]_vars

\* the session was submitted and the results page has since loaded its results
C29_Witness ==
    /\ testSubmitted
    /\ submissionStartedRef
    /\ transportCalls > 0
    /\ resultsView.stage = "done"
    /\ resultsView.results

====
